---- MODULE Spec2Model ----
(***************************************************************************)
(* Model of the site crawler of src/functions.py (normalize_url,           *)
(* get_base_domain, crawl_external_links, simplify_external_links).        *)
(*                                                                         *)
(* Strings are sequences of tokens.  A token stands for a run of           *)
(* characters ("https", "pleo", "/", ...), so that parsing, lower-casing,  *)
(* stripping, joining and sorting are computed, not assumed.               *)
(***************************************************************************)
EXTENDS Integers, Sequences, FiniteSets, TLC

(***************************************************************************)
(* Bounds of the model.                                                    *)
(***************************************************************************)
\* the page cap of a crawl ranges over 1..MaxPagesBound (100 in the code)
MaxPagesBound == 3
\* a parsed page holds at most MaxLinks anchors
MaxLinks == 2
\* simplify is applied to input lists of at most MaxInput URLs
MaxInput == 3
\* get_base_domain is applied to hosts of at most MaxLabels labels
MaxLabels == 4

(***************************************************************************)
(* Strings.                                                                *)
(***************************************************************************)
\* The tokens, in the order of Python's string comparison (code points):
\* '#' < '.' < '/' < digits < ':' < ';' < '?' < upper case < '[' < lower case.
TokOrder ==
    << "#", ".", "/", "8080", ":", ";", "?", "HTTPS", "PLEO", "[",
       "a", "blog", "co", "example", "f", "goo", "https", "io", "k",
       "mailto", "maps", "org", "pleo", "q", "uk", "www", "x" >>

\* Python's None, as returned by get_base_domain; no string equals it.
None == << "None" >>

TokRank(t) == CHOOSE i \in 1..Len(TokOrder) : TokOrder[i] = t

\* the tokens made of letters and digits only
Words ==
    { "8080", "HTTPS", "PLEO", "a", "blog", "co", "example", "f", "goo",
      "https", "io", "k", "mailto", "maps", "org", "pleo", "q", "uk",
      "www", "x" }

\* str.lower() on one token
LowerTok(t) ==
    CASE t = "HTTPS" -> "https"
      [] t = "PLEO"  -> "pleo"
      [] OTHER       -> t

\* str.lower()
Lower(s) == [i \in 1..Len(s) |-> LowerTok(s[i])]

Range(s) == {s[i] : i \in 1..Len(s)}

\* s[from:] as Python slices it, 1-based: the suffix starting at index from
Drop(s, from) == SubSeq(s, from, Len(s))

\* str.find(t, start): the first index >= start holding t, 0 when there is none
FindFrom(s, t, start) ==
    IF \E i \in start..Len(s) : s[i] = t
    THEN CHOOSE i \in start..Len(s) :
             s[i] = t /\ \A j \in start..(i - 1) : s[j] # t
    ELSE 0

Find(s, t) == FindFrom(s, t, 1)

\* str.rfind(t): the last index holding t, 0 when there is none
RFind(s, t) ==
    IF \E i \in 1..Len(s) : s[i] = t
    THEN CHOOSE i \in 1..Len(s) :
             s[i] = t /\ \A j \in (i + 1)..Len(s) : s[j] # t
    ELSE 0

\* str.rstrip('/')
RECURSIVE RStripSlash(_)
RStripSlash(s) ==
    IF s # <<>> /\ s[Len(s)] = "/"
    THEN RStripSlash(SubSeq(s, 1, Len(s) - 1))
    ELSE s

\* str.split(sep): the list of the pieces between the separators
RECURSIVE Split(_, _)
Split(s, sep) ==
    LET i == Find(s, sep)
    IN  IF i = 0
        THEN << s >>
        ELSE << SubSeq(s, 1, i - 1) >> \o Split(Drop(s, i + 1), sep)

\* sep.join(parts)
RECURSIVE Join(_, _)
Join(parts, sep) ==
    IF parts = <<>>
    THEN <<>>
    ELSE IF Len(parts) = 1
         THEN parts[1]
         ELSE parts[1] \o << sep >> \o Join(Tail(parts), sep)

\* parts[-n:]
LastN(parts, n) ==
    IF Len(parts) <= n THEN parts ELSE SubSeq(parts, Len(parts) - n + 1, Len(parts))

\* s < t for Python strings: lexicographic, a proper prefix comes first
RECURSIVE StrLess(_, _)
StrLess(s, t) ==
    IF t = <<>>
    THEN FALSE
    ELSE IF s = <<>>
         THEN TRUE
         ELSE IF s[1] = t[1]
              THEN StrLess(Tail(s), Tail(t))
              ELSE TokRank(s[1]) < TokRank(t[1])

(***************************************************************************)
(* urllib.parse, as functions.py uses it (urlparse, urlunparse, urljoin).  *)
(* The scheme tables are cut down to the schemes of the token alphabet.    *)
(***************************************************************************)

uses_relative == { <<>>, << "https" >> }
uses_netloc == { <<>>, << "https" >> }
uses_params == { <<>>, << "https" >> }

\* urlsplit: the index of the ':' that ends a scheme, 0 when the URL has none
SchemeEnd(url) ==
    LET i == Find(url, ":")
    IN  IF /\ i > 1
           /\ url[1] \in Words \ {"8080"}
           /\ \A k \in 1..(i - 1) : url[k] \in Words \cup {"."}
        THEN i
        ELSE 0

\* urlsplit: the URL after its scheme
AfterScheme(url) ==
    IF SchemeEnd(url) > 0 THEN Drop(url, SchemeEnd(url) + 1) ELSE url

HasNetloc(rest) == Len(rest) >= 2 /\ rest[1] = "/" /\ rest[2] = "/"

\* _splitnetloc(url, 2): the index of the first of '/?#' after the leading
\* '//', Len + 1 when there is none
NetlocEnd(rest) ==
    LET ends == { i \in 3..Len(rest) : rest[i] \in {"/", "?", "#"} }
    IN  IF ends = {} THEN Len(rest) + 1
        ELSE CHOOSE i \in ends : \A j \in ends : i <= j

\* urlsplit raises ValueError("Invalid IPv6 URL") on a netloc with an
\* unmatched bracket
UrlparseRaises(url) ==
    LET rest == AfterScheme(url)
    IN  /\ HasNetloc(rest)
        /\ "[" \in Range(SubSeq(rest, 3, NetlocEnd(rest) - 1))

\* _splitparams
SplitParams(url) ==
    LET i == IF "/" \in Range(url)
             THEN FindFrom(url, ";", RFind(url, "/"))
             ELSE Find(url, ";")
    IN  IF i = 0
        THEN [path |-> url, params |-> <<>>]
        ELSE [path |-> SubSeq(url, 1, i - 1), params |-> Drop(url, i + 1)]

\* urlparse, its last step: the params are split off the path
ParseParams(scheme, netloc, url, query, fragment) ==
    IF scheme \in uses_params /\ ";" \in Range(url)
    THEN [scheme |-> scheme, netloc |-> netloc, path |-> SplitParams(url).path,
          params |-> SplitParams(url).params, query |-> query,
          fragment |-> fragment]
    ELSE [scheme |-> scheme, netloc |-> netloc, path |-> url,
          params |-> <<>>, query |-> query, fragment |-> fragment]

\* urlsplit: url.split('?', 1)
ParseQuery(scheme, netloc, url, fragment) ==
    IF Find(url, "?") > 0
    THEN ParseParams(scheme, netloc, SubSeq(url, 1, Find(url, "?") - 1),
                     Drop(url, Find(url, "?") + 1), fragment)
    ELSE ParseParams(scheme, netloc, url, <<>>, fragment)

\* urlsplit: url.split('#', 1)
ParseFragment(scheme, netloc, url) ==
    IF Find(url, "#") > 0
    THEN ParseQuery(scheme, netloc, SubSeq(url, 1, Find(url, "#") - 1),
                    Drop(url, Find(url, "#") + 1))
    ELSE ParseQuery(scheme, netloc, url, <<>>)

\* urlsplit: _splitnetloc(url, 2) when the URL goes on with '//'
ParseNetloc(scheme, rest) ==
    IF HasNetloc(rest)
    THEN ParseFragment(scheme, SubSeq(rest, 3, NetlocEnd(rest) - 1),
                       Drop(rest, NetlocEnd(rest)))
    ELSE ParseFragment(scheme, <<>>, rest)

\* urlparse(url, scheme): defined where UrlparseRaises(url) is false
UrlparseDefault(url, default) ==
    ParseNetloc(IF SchemeEnd(url) > 0
                THEN Lower(SubSeq(url, 1, SchemeEnd(url) - 1))
                ELSE default,
                AfterScheme(url))

Urlparse(url) == UrlparseDefault(url, <<>>)

\* urlunsplit
Urlunsplit(scheme, netloc, url, query, fragment) ==
    LET u1 == IF \/ netloc # <<>>
                 \/ /\ scheme # <<>>
                    /\ scheme \in uses_netloc
                    /\ ~HasNetloc(url)
              THEN << "/", "/" >> \o netloc \o
                   (IF url # <<>> /\ url[1] # "/" THEN << "/" >> \o url ELSE url)
              ELSE url
        u2 == IF scheme # <<>> THEN scheme \o << ":" >> \o u1 ELSE u1
        u3 == IF query # <<>> THEN u2 \o << "?" >> \o query ELSE u2
    IN  IF fragment # <<>> THEN u3 \o << "#" >> \o fragment ELSE u3

\* urlunparse
Urlunparse(scheme, netloc, url, params, query, fragment) ==
    Urlunsplit(scheme, netloc,
               IF params # <<>> THEN url \o << ";" >> \o params ELSE url,
               query, fragment)

\* urljoin: the loop that removes the dot segments
RECURSIVE ResolveSegments(_, _)
ResolveSegments(segments, resolved) ==
    IF segments = <<>>
    THEN resolved
    ELSE LET seg == Head(segments)
         IN  IF seg = << ".", "." >>
             THEN ResolveSegments(Tail(segments),
                      IF resolved = <<>> THEN resolved
                      ELSE SubSeq(resolved, 1, Len(resolved) - 1))
             ELSE IF seg = << "." >>
                  THEN ResolveSegments(Tail(segments), resolved)
                  ELSE ResolveSegments(Tail(segments), Append(resolved, seg))

\* segments[1:-1] = filter(None, segments[1:-1])
FilterMiddle(segments) ==
    IF Len(segments) <= 2
    THEN segments
    ELSE << segments[1] >>
         \o SelectSeq(SubSeq(segments, 2, Len(segments) - 1), LAMBDA x : x # <<>>)
         \o << segments[Len(segments)] >>

UrljoinRaises(base, url) ==
    base # <<>> /\ url # <<>> /\ (UrlparseRaises(base) \/ UrlparseRaises(url))

\* urljoin: base_parts, the segments of the base path without the last one
BaseParts(bsplit) ==
    IF bsplit[Len(bsplit)] # <<>>
    THEN SubSeq(bsplit, 1, Len(bsplit) - 1)
    ELSE bsplit

\* urljoin: segments
Segments(bpath, path) ==
    IF path # <<>> /\ path[1] = "/"
    THEN Split(path, "/")
    ELSE FilterMiddle(BaseParts(Split(bpath, "/")) \o Split(path, "/"))

\* urljoin: '/'.join(resolved_path) or '/'
ResolvedPath(segments) ==
    IF segments[Len(segments)] \in { << "." >>, << ".", "." >> }
    THEN Join(Append(ResolveSegments(segments, <<>>), <<>>), "/")
    ELSE Join(ResolveSegments(segments, <<>>), "/")

\* urljoin, once base and url are parsed into b and u
JoinParsed(url, b, u) ==
    IF u.scheme # b.scheme \/ u.scheme \notin uses_relative
    THEN url
    ELSE IF u.scheme \in uses_netloc /\ u.netloc # <<>>
    THEN Urlunparse(u.scheme, u.netloc, u.path, u.params, u.query, u.fragment)
    ELSE IF u.path = <<>> /\ u.params = <<>>
    THEN Urlunparse(u.scheme,
                    IF u.scheme \in uses_netloc THEN b.netloc ELSE u.netloc,
                    b.path, b.params,
                    IF u.query = <<>> THEN b.query ELSE u.query, u.fragment)
    ELSE Urlunparse(u.scheme,
                    IF u.scheme \in uses_netloc THEN b.netloc ELSE u.netloc,
                    IF ResolvedPath(Segments(b.path, u.path)) = <<>>
                    THEN << "/" >>
                    ELSE ResolvedPath(Segments(b.path, u.path)),
                    u.params, u.query, u.fragment)

\* urljoin(base, url): defined where UrljoinRaises(base, url) is false
Urljoin(base, url) ==
    IF base = <<>> THEN url
    ELSE IF url = <<>> THEN base
    ELSE JoinParsed(url, Urlparse(base),
                    UrlparseDefault(url, Urlparse(base).scheme))

(***************************************************************************)
(* functions.py: normalize_url and get_base_domain.                        *)
(***************************************************************************)
\* NormalizedPath with one trailing slash removed instead of all of them
NormalizedPathStripsOne(path) ==
    IF path # <<>> /\ path[Len(path)] = "/" /\ Len(path) > 1
    THEN SubSeq(path, 1, Len(path) - 1)
    ELSE IF path = <<>> THEN << "/" >> ELSE path

\* parsed.path.rstrip('/') or '/'
NormalizedPath(path) ==
    IF RStripSlash(path) = <<>> THEN << "/" >> ELSE RStripSlash(path)

\* lines 19-26: the URL put together again from its parsed parts
Unparsed(parsed) ==
    Urlunparse(Lower(parsed.scheme), Lower(parsed.netloc),
               NormalizedPath(parsed.path), parsed.params, parsed.query, <<>>)

normalize_url(url) ==
    IF UrlparseRaises(url) THEN url ELSE Unparsed(Urlparse(url))

two_part_tlds ==
    { << "co", ".", "uk" >>, << "com", ".", "au" >>, << "co", ".", "nz" >>,
      << "co", ".", "za" >>, << "com", ".", "br" >>, << "com", ".", "mx" >> }

\* lines 61-72: the base domain of a domain without port, split into parts
BaseOfParts(domain, parts) ==
    IF Len(parts) >= 3 /\ Join(LastN(parts, 2), ".") \in two_part_tlds
    THEN Join(LastN(parts, 3), ".")
    ELSE IF Len(parts) >= 2
         THEN Join(LastN(parts, 2), ".")
         ELSE domain

\* lines 53-56: the port is removed, the domain is split at the dots
WithoutPort(domain) == BaseOfParts(domain, Split(domain, "."))

get_base_domain(domain) ==
    IF domain = <<>> \/ domain = None
    THEN None
    ELSE WithoutPort(Split(domain, ":")[1])

\* Python truthiness of a string or None
Truthy(v) == v # <<>> /\ v # None

(***************************************************************************)
(* functions.py: simplify_external_links.                                  *)
(***************************************************************************)
\* the for loop of simplify_external_links: unique_domains after the URLs
\* of the argument, in order, have been processed
RECURSIVE SimplifyLoop(_, _)
SimplifyLoop(urls, unique_domains) ==
    IF urls = <<>>
    THEN unique_domains
    ELSE LET url == Head(urls)
             domain == Urlparse(url).netloc
             base_domain == get_base_domain(domain)
         IN  SimplifyLoop(Tail(urls),
                 IF UrlparseRaises(url)
                 THEN unique_domains
                 ELSE IF Truthy(domain) /\ Truthy(base_domain)
                      THEN unique_domains \cup {base_domain}
                      ELSE unique_domains)

\* the least string of a non-empty set
MinStr(S) == CHOOSE x \in S : \A y \in S : y = x \/ StrLess(x, y)

\* the strings of S from the greatest down to the least
RECURSIVE SortedDescending(_)
SortedDescending(S) ==
    IF S = {} THEN <<>> ELSE SortedDescending(S \ {MinStr(S)}) \o << MinStr(S) >>

\* sorted(list(S))
RECURSIVE Sorted(_)
Sorted(S) ==
    IF S = {} THEN <<>> ELSE << MinStr(S) >> \o Sorted(S \ {MinStr(S)})

\* the base domains of the URLs in the order of their first occurrence
RECURSIVE InsertionOrder(_, _)
InsertionOrder(urls, seen) ==
    IF urls = <<>>
    THEN <<>>
    ELSE LET one == SimplifyLoop(<< Head(urls) >>, {})
         IN  IF one \subseteq seen
             THEN InsertionOrder(Tail(urls), seen)
             ELSE Sorted(one) \o InsertionOrder(Tail(urls), seen \cup one)

\* simplify_external_links without the sorted() of line 254
SimplifyUnsorted(urls) == InsertionOrder(urls, {})

\* lines 239-254
simplify_external_links(urls) ==
    Sorted(SimplifyLoop(urls, {}))

(***************************************************************************)
(* The crawl: the inputs.                                                  *)
(***************************************************************************)
\* start URLs a caller hands to crawl_external_links
Seeds ==
    { << "https", ":", "/", "/", "pleo", ".", "io" >>,
      << "https", ":", "/", "/", "PLEO", ".", "io", "/" >>,
      << "pleo", ".", "io" >>,
      << "https", ":", "/", "/", ":", "8080" >>,
      << "https", ":", "/", "/", "[" >> }

\* href attributes of the anchors of the site's pages
Hrefs ==
    { << "/", "a" >>,
      << "https", ":", "/", "/", "blog", ".", "pleo", ".", "io", "/", "a", "/" >>,
      << "https", ":", "/", "/", "pleo", ".", "io", "/", "#", "f" >>,
      << "https", ":", "/", "/", "www", ".", "goo", ".", "org", "/", "k", "?", "q" >>,
      << "https", ":", "/", "/", "maps", ".", "goo", ".", "org", "/" >>,
      << "mailto", ":", "x" >>,
      << "https", ":", "/", "/", "[" >> }

\* the class hierarchy of the exceptions: the direct base class
BaseClass(e) ==
    CASE e = "Timeout"          -> "RequestException"
      [] e = "ConnectionError"  -> "RequestException"
      [] e = "HTTPError"        -> "RequestException"
      [] e = "RequestException" -> "Exception"
      [] e = "RecursionError"   -> "Exception"
      [] e = "ValueError"       -> "Exception"
      [] OTHER                  -> "BaseException"

\* isinstance(e, cls)
RECURSIVE IsInstance(_, _)
IsInstance(e, cls) ==
    \/ e = cls
    \/ e # "BaseException" /\ IsInstance(BaseClass(e), cls)

\* does a try statement with these except clauses catch e
Catches(clauses, e) == \E cls \in clauses : IsInstance(e, cls)

(***************************************************************************)
(* The crawl: crawl_external_links as a state machine.  The call stack is  *)
(* explicit: one frame per active call, the last frame is the running one. *)
(***************************************************************************)
VARIABLES
    maxPages,        \* the page cap of line 206
    site,            \* the href attributes the pages of the site are written with
    net,             \* what the network can give for a GET
    seed,            \* the start_url of the outermost call
    stack,           \* the active calls of crawl_external_links
    visited,         \* the set visited, shared by all calls
    external_links,  \* the set external_links, shared by all calls
    fetched,         \* history: the URLs handed to requests.get, in order,
                     \* each with the kind of response it got
    anchors,         \* history: the anchors of the parsed pages that could
                     \* be resolved, as absolute URLs
    found,           \* history: the URLs of the links the crawl took for
                     \* internal, each with the first fetched page that has it
    raised,          \* the exception that left the outermost call, or "none"
    result,          \* the list the outermost call returned
    domains,         \* simplify_external_links(result), as the caller computes it
    earlier,         \* history: of the URLs that the crawls the process ran
                     \* before this one left in visited, the one this crawl
                     \* starts at
    pc,              \* "crawl", "returned", "error" or "done"
    xs, ys,          \* two argument lists of simplify_external_links
    outx, outy,      \* what it returned for them
    spc,             \* "idle", "first", "second" or "done"
    arg,             \* the arguments of normalize_url or get_base_domain
    out,             \* what they returned
    fpc,             \* "idle", "call", "again" or "done"
    links,           \* the table links: how many rows hold each
                     \* (date, linking_url, url)
    job,             \* the runs of update_links_from_companies
    pool,            \* the connections of the pool that are checked out
    query,           \* the call of Database.execute_query under way
    test_db,         \* the table test_db: the sequence_number of each row
    cron             \* the runs of run_cron_job

vars == << maxPages, site, net, seed, stack, visited, external_links, fetched,
           anchors, found,
           raised, result, domains, earlier, pc, xs, ys, outx, outy, spc,
           arg, out, fpc, links, job, pool, query, test_db, cron >>

crawlVars == << maxPages, site, net, seed, stack, visited, external_links,
                fetched, anchors, found, raised, result, domains, earlier, pc >>

simplifyVars == << xs, ys, outx, outy, spc >>

pureVars == << arg, out, fpc >>

dbVars == << links, job, pool, query, test_db, cron >>

Top(stk) == stk[Len(stk)]
Pop(stk) == SubSeq(stk, 1, Len(stk) - 1)

\* the except clauses of crawl_external_links
ValidateHandlers == { "Exception" }
\* FetchHandlers with the except clause of line 131 alone
FetchHandlersTimeoutOnly == { "Timeout" }

FetchHandlers ==
    { "Timeout", "ConnectionError", "HTTPError", "RequestException", "Exception" }
ResolveHandlers == { "Exception" }
CallHandlers == { "RecursionError", "Exception" }
LinkHandlers == { "Exception" }
PageHandlers == { "Exception" }

\* line 128 without a response: requests.get raises
NoResponse ==
    [kind : {"error"}, exc : { "Timeout", "ConnectionError", "RequestException" }, n : {0},
     status : {0}, ctype : {"none"}]

\* responses with one of the statuses and content types: the text is empty,
\* or one the parser fails on, or a page with n anchors
Answers(statuses, ctypes) ==
    [kind : {"empty"}, exc : {"none"}, n : {0}, status : statuses, ctype : ctypes]
    \cup [kind : {"unparsable"}, exc : { "RecursionError", "ValueError" }, n : {0}, status : statuses,
          ctype : ctypes]
    \cup [kind : {"page"}, exc : {"none"}, n : 0..MaxLinks, status : statuses,
          ctype : ctypes]

\* what a fetch of a page can give: an exception of requests, a 404, or an
\* HTML response with status 200
Responses ==
    NoResponse
    \cup Answers({200}, {"text/html"})
    \cup [kind : {"empty"}, exc : {"none"}, n : {0}, status : {404},
          ctype : {"text/html"}]

\* line 129: response.raise_for_status() raises HTTPError for the statuses
\* 400 to 599 and for no other
RaisesForStatus(status) == status \in 400..599

\* what became of the GET: "error" when line 128 or line 129 raised
KindOf(resp) == IF RaisesForStatus(resp.status) THEN "error" ELSE resp.kind

\* ListsOf for a crawl that returned the simplified domains of S
ListsOfDomains(S) ==
    { Sorted({ get_base_domain(Urlparse(u).netloc) : u \in S }) }

\* list(S): the elements of S, each once, in an order Python does not fix
RECURSIVE ListsOf(_)
ListsOf(S) ==
    IF S = {}
    THEN { <<>> }
    ELSE UNION { { << x >> \o l : l \in ListsOf(S \ {x}) } : x \in S }

\* how a call goes on after lines 92-157: the new visited, whether a GET was
\* issued, and "return", "raise" (with exc) or "loop" (over n anchors, with
\* start_base_domain base)
Returns(vis, get) ==
    [visited |-> vis, get |-> get, exit |-> "return", exc |-> "none",
     base |-> None, n |-> 0]

Raises(vis, get, e, handlers) ==
    IF Catches(handlers, e)
    THEN Returns(vis, get)
    ELSE [visited |-> vis, get |-> get, exit |-> "raise", exc |-> e,
          base |-> None, n |-> 0]

\* Fetch with "and" for the "or" of line 113
FetchAndForOr(start_domain, start_base_domain, vis, resp) ==
    IF ~Truthy(start_domain) /\ ~Truthy(start_base_domain)
    THEN Returns(vis, FALSE)
    ELSE IF resp.kind = "error"
    THEN Raises(vis, TRUE, resp.exc, FetchHandlers)
    ELSE IF RaisesForStatus(resp.status)
    THEN Raises(vis, TRUE, "HTTPError", FetchHandlers)
    ELSE IF resp.kind = "empty"
    THEN Returns(vis, TRUE)
    ELSE IF resp.kind = "unparsable"
    THEN Raises(vis, TRUE, resp.exc, PageHandlers)
    ELSE [visited |-> vis, get |-> TRUE, exit |-> "loop", exc |-> "none",
          base |-> start_base_domain, n |-> resp.n]

\* lines 113-157: the start URL is checked, the page fetched and parsed
Fetch(start_domain, start_base_domain, vis, resp) ==
    IF ~Truthy(start_domain) \/ ~Truthy(start_base_domain)
    THEN Returns(vis, FALSE)
    ELSE IF resp.kind = "error"
    THEN Raises(vis, TRUE, resp.exc, FetchHandlers)
    ELSE IF RaisesForStatus(resp.status)
    THEN Raises(vis, TRUE, "HTTPError", FetchHandlers)
    ELSE IF resp.kind = "empty"
    THEN Returns(vis, TRUE)
    ELSE IF resp.kind = "unparsable"
    THEN Raises(vis, TRUE, resp.exc, PageHandlers)
    ELSE [visited |-> vis, get |-> TRUE, exit |-> "loop", exc |-> "none",
          base |-> start_base_domain, n |-> resp.n]

\* lines 107-116: start_domain and start_base_domain of the start URL
Validate(start_url, vis, resp) ==
    IF UrlparseRaises(start_url)
    THEN Raises(vis, FALSE, "ValueError", ValidateHandlers)
    ELSE Fetch(Urlparse(start_url).netloc,
               get_base_domain(Urlparse(start_url).netloc), vis, resp)

\* CrawlEntry without line 105: the URL is not marked as visited
CrawlEntryNoMark(start_url, vis, resp) ==
    IF normalize_url(start_url) \in vis
    THEN Returns(vis, FALSE)
    ELSE Validate(start_url, vis, resp)

\* lines 92-157 of a call of crawl_external_links(start_url, visited,
\* external_links) that gets resp from the network
CrawlEntry(start_url, vis, resp) ==
    IF normalize_url(start_url) \in vis
    THEN Returns(vis, FALSE)
    ELSE Validate(start_url, vis \cup {normalize_url(start_url)}, resp)

\* how a call goes on after one anchor: the new external_links and
\* "continue", "call" (of crawl_external_links(url, ...)), "return" or "raise";
\* url is the normalized URL of a link taken for internal (lines 198-214),
\* empty for any other anchor
Go(how, e, ext, url) ==
    [external_links |-> ext, next |-> how, exc |-> e, url |-> url]

\* Classify without the test of the cap of line 206
ClassifyNoCap(start_base_domain, link_base_domain, normalized_absolute_url, vis, ext, cap) ==
    IF ~Truthy(link_base_domain)
    THEN Go("continue", "none", ext, <<>>)
    ELSE IF link_base_domain # start_base_domain
    THEN Go("continue", "none", ext \cup {normalized_absolute_url}, <<>>)
    ELSE IF normalized_absolute_url \in vis
    THEN Go("continue", "none", ext, normalized_absolute_url)
    ELSE Go("call", "none", ext, normalized_absolute_url)

\* Classify with the cap tested after the call instead of before it
ClassifyCapOffByOne(start_base_domain, link_base_domain, normalized_absolute_url, vis, ext, cap) ==
    IF ~Truthy(link_base_domain)
    THEN Go("continue", "none", ext, <<>>)
    ELSE IF link_base_domain # start_base_domain
    THEN Go("continue", "none", ext \cup {normalized_absolute_url}, <<>>)
    ELSE IF normalized_absolute_url \in vis
    THEN Go("continue", "none", ext, normalized_absolute_url)
    ELSE IF Cardinality(vis) <= cap
    THEN Go("call", "none", ext, normalized_absolute_url)
    ELSE Go("continue", "none", ext, normalized_absolute_url)

\* Classify with the cap on the external links instead of the visited pages
ClassifyCapOnLinks(start_base_domain, link_base_domain, normalized_absolute_url, vis, ext, cap) ==
    IF ~Truthy(link_base_domain)
    THEN Go("continue", "none", ext, <<>>)
    ELSE IF link_base_domain # start_base_domain
    THEN Go("continue", "none", ext \cup {normalized_absolute_url}, <<>>)
    ELSE IF normalized_absolute_url \in vis
    THEN Go("continue", "none", ext, normalized_absolute_url)
    ELSE IF Cardinality(ext) < cap
    THEN Go("call", "none", ext, normalized_absolute_url)
    ELSE Go("continue", "none", ext, normalized_absolute_url)

\* lines 190-214: the link is external, or internal and crawled if new
Classify(start_base_domain, link_base_domain, normalized_absolute_url, vis, ext, cap) ==
    IF ~Truthy(link_base_domain)
    THEN Go("continue", "none", ext, <<>>)
    ELSE IF link_base_domain # start_base_domain
    THEN Go("continue", "none", ext \cup {normalized_absolute_url}, <<>>)
    ELSE IF normalized_absolute_url \in vis
    THEN Go("continue", "none", ext, normalized_absolute_url)
    ELSE IF Cardinality(vis) < cap
    THEN Go("call", "none", ext, normalized_absolute_url)
    ELSE Go("continue", "none", ext, normalized_absolute_url)

\* lines 174-188: links without http(s) scheme or without domain are skipped
CrawlParsed(start_base_domain, parsed_url, normalized_absolute_url, vis, ext, cap) ==
    IF parsed_url.scheme \notin { << "http" >>, << "https" >> }
    THEN Go("continue", "none", ext, <<>>)
    ELSE IF ~Truthy(parsed_url.netloc)
    THEN Go("continue", "none", ext, <<>>)
    ELSE Classify(start_base_domain, get_base_domain(parsed_url.netloc),
                  normalized_absolute_url, vis, ext, cap)

\* ResolveFailed without the handlers of lines 171 and 216: the ValueError
\* ends the loop over the anchors at line 219
ResolveFailedReturns(ext) == Go("return", "none", ext, <<>>)

\* a ValueError of lines 167-170 meets the handlers of lines 171, 216, 219
ResolveFailed(ext) ==
    IF Catches(ResolveHandlers, "ValueError") \/ Catches(LinkHandlers, "ValueError")
    THEN Go("continue", "none", ext, <<>>)
    ELSE IF Catches(PageHandlers, "ValueError")
         THEN Go("return", "none", ext, <<>>)
         ELSE Go("raise", "ValueError", ext, <<>>)

\* lines 169-170: the absolute URL is normalized and parsed
CrawlResolved(start_base_domain, absolute_url, vis, ext, cap) ==
    IF UrlparseRaises(absolute_url)
    THEN ResolveFailed(ext)
    ELSE CrawlParsed(start_base_domain, Urlparse(absolute_url),
                     normalize_url(absolute_url), vis, ext, cap)

\* lines 160-217: one iteration of the for loop of the call f, for the
\* anchor href
CrawlLink(f, href, vis, ext, cap) ==
    IF ~Truthy(href)
    THEN Go("continue", "none", ext, <<>>)
    ELSE IF UrljoinRaises(f.url, href)
    THEN ResolveFailed(ext)
    ELSE CrawlResolved(f.base, Urljoin(f.url, href), vis, ext, cap)

\* An exception e leaves a call; stk holds its callers, the last of them
\* waiting at line 208.  Lines 209-220 of the callers decide where it ends.
RECURSIVE Propagate(_, _)
Propagate(stk, e) ==
    IF stk = <<>>
    THEN [stack |-> stk, raised |-> e]
    ELSE IF Catches(CallHandlers, e) \/ Catches(LinkHandlers, e)
         THEN [stack |-> stk, raised |-> "none"]
         ELSE IF Catches(PageHandlers, e)
              THEN [stack |-> Pop(stk), raised |-> "none"]
              ELSE Propagate(Pop(stk), e)

\* the running call ends, by a return (e = "none") or by the exception e
Unwind(stk, e) ==
    IF e = "none"
    THEN [stack |-> Pop(stk), raised |-> "none"]
    ELSE Propagate(Pop(stk), e)

\* the state after the running call made its step and left the stack u.stack
Resume(u, ext) ==
    /\ stack' = u.stack
    /\ raised' = u.raised
    /\ IF u.stack # <<>>
       THEN pc' = pc /\ result' = result
       ELSE IF u.raised # "none"
            THEN pc' = "error" /\ result' = result
            ELSE pc' = "returned" /\ result' \in ListsOf(ext)

Frame(url) == [url |-> url, base |-> None, left |-> 0, at |-> "call"]

CrawlInit ==
    /\ maxPages \in 1..MaxPagesBound
    /\ site = Hrefs
    /\ net = Responses
    /\ seed \in Seeds
    /\ stack = << Frame(seed) >>
    /\ visited = {}
    /\ external_links = {}
    /\ fetched = <<>>
    /\ anchors = {}
    /\ found = {}
    /\ raised = "none"
    /\ result = <<>>
    /\ domains = <<>>
    /\ earlier = {}
    /\ pc = "crawl"

SimplifyIdle ==
    /\ xs = <<>>
    /\ ys = <<>>
    /\ outx = <<>>
    /\ outy = <<>>
    /\ spc = "idle"

\* normalize_url and get_base_domain are not called on their own
PureIdle ==
    /\ arg = <<>>
    /\ out = <<>>
    /\ fpc = "idle"

\* no batch job, no query and no cron job is run
DbIdle ==
    /\ links = <<>>
    /\ job = <<>>
    /\ pool = <<>>
    /\ query = <<>>
    /\ test_db = <<>>
    /\ cron = <<>>

Init == CrawlInit /\ SimplifyIdle /\ PureIdle /\ DbIdle

\* lines 92-95 with the sets of the call before kept for a call that is
\* handed none
VisitedKept(handed) == visited

ExternalLinksKept(handed) == external_links

\* lines 92-93: the set visited of a call; the caller handed its own
\* (line 208) or none (update_links_db.py, line 56)
VisitedAtEntry(handed) == IF handed THEN visited ELSE {}

\* lines 94-95 with a fresh set for every call, the recursive ones too
ExternalLinksFresh(handed) == {}

\* lines 94-95: the set external_links of a call
ExternalLinksAtEntry(handed) == IF handed THEN external_links ELSE {}

\* a call of crawl_external_links runs up to its for loop (lines 92-157)
Enter ==
    /\ pc = "crawl"
    /\ stack # <<>>
    /\ Top(stack).at = "call"
    /\ \E resp \in net :
         LET f == Top(stack)
             r == CrawlEntry(f.url, VisitedAtEntry(Len(stack) > 1), resp)
         IN  /\ visited' = r.visited
             /\ external_links' = ExternalLinksAtEntry(Len(stack) > 1)
             /\ fetched' = IF r.get
                           THEN Append(fetched, [url |-> f.url, kind |-> KindOf(resp)])
                           ELSE fetched
             /\ IF r.exit = "loop"
                THEN Resume([stack |-> Append(Pop(stack),
                                 [f EXCEPT !.base = r.base, !.left = r.n,
                                           !.at = "loop"]),
                             raised |-> "none"],
                            ExternalLinksAtEntry(Len(stack) > 1))
                ELSE Resume(Unwind(stack, r.exc),
                            ExternalLinksAtEntry(Len(stack) > 1))
    /\ UNCHANGED << maxPages, site, net, seed, anchors, found, domains, earlier >>
    /\ UNCHANGED simplifyVars
    /\ UNCHANGED pureVars
    /\ UNCHANGED dbVars

\* the place in fetched of the page at url
PageIndex(url) == CHOOSE i \in 1..Len(fetched) : fetched[i].url = url

\* found, once a link to url was taken for internal on the page with index i
FoundOn(url, i) ==
    IF \E x \in found : x.url = url
    THEN { IF x.url = url /\ i < x.on THEN [url |-> url, on |-> i] ELSE x :
             x \in found }
    ELSE found \cup { [url |-> url, on |-> i] }

\* one iteration of the for loop over the anchors of the page (lines 159-217)
ProcessLink ==
    /\ pc = "crawl"
    /\ stack # <<>>
    /\ Top(stack).at = "loop"
    /\ Top(stack).left > 0
    /\ \E href \in site \cup { <<>> } :
         LET f == [Top(stack) EXCEPT !.left = @ - 1]
             r == CrawlLink(f, href, visited, external_links, maxPages)
             stk == Append(Pop(stack), f)
         IN  /\ external_links' = r.external_links
             /\ anchors' = IF Truthy(href) /\ ~UrljoinRaises(f.url, href)
                           THEN anchors \cup {Urljoin(f.url, href)}
                           ELSE anchors
             /\ found' = IF r.url = <<>> THEN found ELSE FoundOn(r.url, PageIndex(f.url))
             /\ IF r.next = "continue"
                THEN Resume([stack |-> stk, raised |-> "none"], r.external_links)
                ELSE IF r.next = "call"
                THEN Resume([stack |-> Append(stk, Frame(r.url)),
                             raised |-> "none"], r.external_links)
                ELSE Resume(Unwind(stk, r.exc), r.external_links)
    /\ UNCHANGED << maxPages, site, net, seed, visited, fetched, domains, earlier >>
    /\ UNCHANGED simplifyVars
    /\ UNCHANGED pureVars
    /\ UNCHANGED dbVars

\* the for loop is over: return list(external_links) (line 222)
Return ==
    /\ pc = "crawl"
    /\ stack # <<>>
    /\ Top(stack).at = "loop"
    /\ Top(stack).left = 0
    /\ Resume(Unwind(stack, "none"), external_links)
    /\ UNCHANGED << maxPages, site, net, seed, visited, external_links, fetched,
                    anchors, found, domains, earlier >>
    /\ UNCHANGED simplifyVars
    /\ UNCHANGED pureVars
    /\ UNCHANGED dbVars

\* the caller simplifies what the crawl returned (update_links_db.py)
Aggregate ==
    /\ pc = "returned"
    /\ domains' = simplify_external_links(result)
    /\ pc' = "done"
    /\ UNCHANGED << maxPages, site, net, seed, stack, visited, external_links,
                    fetched, anchors, found, raised, result, earlier >>
    /\ UNCHANGED simplifyVars
    /\ UNCHANGED pureVars
    /\ UNCHANGED dbVars

Next == Enter \/ ProcessLink \/ Return \/ Aggregate

Spec == Init /\ [][Next]_vars

(***************************************************************************)
(* The process of update_links_db.py crawls one website after the other.   *)
(***************************************************************************)
\* the for loop of update_links_db.py comes to its next company (lines
\* 43-59): crawl_external_links(website) is called with a URL alone.  The
\* sets of the call before are still what they were.
Again ==
    /\ pc = "done"
    /\ \E website \in Seeds :
         /\ seed' = website
         /\ stack' = << Frame(website) >>
         /\ earlier' = visited \cap { normalize_url(website) }
    /\ fetched' = <<>>
    /\ anchors' = {}
    /\ found' = {}
    /\ result' = <<>>
    /\ domains' = <<>>
    /\ pc' = "crawl"
    /\ UNCHANGED << maxPages, site, net, visited, external_links, raised >>
    /\ UNCHANGED simplifyVars
    /\ UNCHANGED pureVars
    /\ UNCHANGED dbVars

ProcessNext == Next \/ Again

ProcessSpec == Init /\ [][ProcessNext]_vars

(***************************************************************************)
(* The crawl with the GET of line 128 in two steps: the request is sent,   *)
(* and the response, or the exception, comes back.                         *)
(***************************************************************************)
\* lines 92-128 of a call: the URL is checked against visited, marked and
\* validated, and requests.get is called; a frame with at = "get" waits for
\* its response.  What the network gives plays no part before line 128.
Begin ==
    /\ pc = "crawl"
    /\ stack # <<>>
    /\ Top(stack).at = "call"
    /\ \E resp \in net :
         LET f == Top(stack)
             r == CrawlEntry(f.url, VisitedAtEntry(Len(stack) > 1), resp)
         IN  /\ visited' = r.visited
             /\ external_links' = ExternalLinksAtEntry(Len(stack) > 1)
             /\ IF r.get
                THEN /\ fetched' = Append(fetched, [url |-> f.url, kind |-> "flight"])
                     /\ Resume([stack |-> Append(Pop(stack), [f EXCEPT !.at = "get"]),
                                raised |-> "none"],
                               ExternalLinksAtEntry(Len(stack) > 1))
                ELSE /\ fetched' = fetched
                     /\ Resume(Unwind(stack, r.exc),
                               ExternalLinksAtEntry(Len(stack) > 1))
    /\ UNCHANGED << maxPages, site, net, seed, anchors, found, domains, earlier >>
    /\ UNCHANGED simplifyVars
    /\ UNCHANGED pureVars
    /\ UNCHANGED dbVars

\* lines 128-157 of a call: requests.get returns or raises, and the call
\* runs up to its for loop
Respond ==
    /\ pc = "crawl"
    /\ stack # <<>>
    /\ Top(stack).at = "get"
    /\ \E resp \in net :
         LET f == Top(stack)
             r == Validate(f.url, visited, resp)
         IN  /\ fetched' = [fetched EXCEPT ![Len(fetched)].kind = KindOf(resp)]
             /\ IF r.exit = "loop"
                THEN Resume([stack |-> Append(Pop(stack),
                                 [f EXCEPT !.base = r.base, !.left = r.n,
                                           !.at = "loop"]),
                             raised |-> "none"], external_links)
                ELSE Resume(Unwind(stack, r.exc), external_links)
    /\ UNCHANGED << maxPages, site, net, seed, visited, external_links, anchors,
                    found, domains, earlier >>
    /\ UNCHANGED simplifyVars
    /\ UNCHANGED pureVars
    /\ UNCHANGED dbVars

FlightNext == Begin \/ Respond \/ ProcessLink \/ Return \/ Aggregate

FlightSpec == Init /\ [][FlightNext]_vars

(***************************************************************************)
(* Crawls of sites that answer every GET with a response of one sort: not  *)
(* HTML, or a status outside 2xx.                                          *)
(***************************************************************************)
\* what requests.get returns after its redirects (line 128): plain text with
\* status 200; a 300 (Multiple Choices), which requests does not follow; or
\* a 404 or a 500
AnswerNets ==
    { Answers({200}, {"text/plain"}),
      Answers({300}, {"text/html"}),
      Answers({404, 500}, {"text/html"}) }

AnswerInit ==
    /\ maxPages \in 1..MaxPagesBound
    /\ site = Hrefs
    /\ net \in AnswerNets
    /\ seed \in { << "https", ":", "/", "/", "pleo", ".", "io" >>,
                  << "https", ":", "/", "/", "PLEO", ".", "io", "/" >> }
    /\ stack = << Frame(seed) >>
    /\ visited = {}
    /\ external_links = {}
    /\ fetched = <<>>
    /\ anchors = {}
    /\ found = {}
    /\ raised = "none"
    /\ result = <<>>
    /\ domains = <<>>
    /\ earlier = {}
    /\ pc = "crawl"
    /\ SimplifyIdle
    /\ PureIdle
    /\ DbIdle

AnswerSpec == AnswerInit /\ [][Next]_vars

(***************************************************************************)
(* A crawl of a site whose pages all answer and link to one another: the   *)
(* order of the fetches is that of the recursion of line 208.              *)
(***************************************************************************)
\* href attributes that lead to four pages of the site, and to another site
OrderHrefs ==
    { << "/", "a" >>,
      << "/", "k" >>,
      << "https", ":", "/", "/", "blog", ".", "pleo", ".", "io", "/", "a", "/" >>,
      << "https", ":", "/", "/", "maps", ".", "goo", ".", "org", "/" >> }

\* the cap lets all four pages be fetched
OrderInit ==
    /\ maxPages \in 1..(MaxPagesBound + 1)
    /\ site = OrderHrefs
    /\ net = [kind : {"page"}, exc : {"none"}, n : 0..MaxLinks, status : {200},
              ctype : {"text/html"}]
    /\ seed = << "https", ":", "/", "/", "pleo", ".", "io" >>
    /\ stack = << Frame(seed) >>
    /\ visited = {}
    /\ external_links = {}
    /\ fetched = <<>>
    /\ anchors = {}
    /\ found = {}
    /\ raised = "none"
    /\ result = <<>>
    /\ domains = <<>>
    /\ earlier = {}
    /\ pc = "crawl"
    /\ SimplifyIdle
    /\ PureIdle
    /\ DbIdle

OrderSpec == OrderInit /\ [][Next]_vars

(***************************************************************************)
(* simplify_external_links on its own: it is applied to two argument       *)
(* lists that hold the same URLs.                                          *)
(***************************************************************************)
\* the URLs of the argument lists
SimplifyUrls ==
    { << "https", ":", "/", "/", "www", ".", "goo", ".", "org", "/", "k", "?", "q" >>,
      << "https", ":", "/", "/", "maps", ".", "goo", ".", "org", "/" >>,
      << "https", ":", "/", "/", "www", ".", "example", ".", "co", ".", "uk" >>,
      << "https", ":", "/", "/", "PLEO", ".", "io", ":", "8080", "/", "a" >>,
      << "https", ":", "/", "/", ":", "8080" >>,
      << "mailto", ":", "x" >>,
      << "https", ":", "/", "/", "[" >> }

\* the lists over S of at most n elements
ListsUpTo(S, n) == UNION { [1..k -> S] : k \in 0..n }

CrawlIdle ==
    /\ maxPages = 1
    /\ site = {}
    /\ net = {}
    /\ seed = <<>>
    /\ stack = <<>>
    /\ visited = {}
    /\ external_links = {}
    /\ fetched = <<>>
    /\ anchors = {}
    /\ found = {}
    /\ raised = "none"
    /\ result = <<>>
    /\ domains = <<>>
    /\ earlier = {}
    /\ pc = "idle"

SimplifyInit ==
    /\ CrawlIdle
    /\ PureIdle
    /\ DbIdle
    /\ xs \in ListsUpTo(SimplifyUrls, MaxInput)
    /\ ys \in { l \in ListsUpTo(SimplifyUrls, MaxInput) : Range(l) = Range(xs) }
    /\ outx = <<>>
    /\ outy = <<>>
    /\ spc = "first"

\* simplify_external_links(xs)
SimplifyFirst ==
    /\ spc = "first"
    /\ outx' = simplify_external_links(xs)
    /\ spc' = "second"
    /\ UNCHANGED << xs, ys, outy >>
    /\ UNCHANGED crawlVars
    /\ UNCHANGED pureVars
    /\ UNCHANGED dbVars

\* simplify_external_links(ys)
SimplifySecond ==
    /\ spc = "second"
    /\ outy' = simplify_external_links(ys)
    /\ spc' = "done"
    /\ UNCHANGED << xs, ys, outx >>
    /\ UNCHANGED crawlVars
    /\ UNCHANGED pureVars
    /\ UNCHANGED dbVars

SimplifyNext == SimplifyFirst \/ SimplifySecond

SimplifySpec == SimplifyInit /\ [][SimplifyNext]_vars

(***************************************************************************)
(* normalize_url on its own: it is applied to a URL and to another way of  *)
(* writing that URL, and once more to its own result.                      *)
(***************************************************************************)
UrlSchemes == { << "https" >>, << "HTTPS" >> }

UrlHosts == { << "pleo", ".", "io" >>, << "PLEO", ".", "io" >> }

UrlPaths ==
    { <<>>,
      << "/" >>,
      << "/", "a" >>,
      << "/", "a", "/" >>,
      << "/", "a", ";" >>,
      << "/", "a", ";", "x" >>,
      << "/", "a", "/", ";", "x" >>,
      << "/", "a", "/", "k", "/" >> }

UrlFragments == { <<>>, << "#", "f" >> }

\* strings handed to normalize_url that are not http(s) URLs with a host
OtherUrls ==
    { << "https", ":", "/", "/", "[" >>,
      << "mailto", ":", "x" >>,
      << "pleo", ".", "io" >>,
      << "/", "/", "/", "/", "a" >>,
      <<>> }

UrlParts ==
    [scheme : UrlSchemes, host : UrlHosts, path : UrlPaths,
     query : { <<>>, << "?", "q" >> }, fragment : UrlFragments]

\* the URL as it is written
Written(p) ==
    p.scheme \o << ":", "/", "/" >> \o p.host \o p.path \o p.query \o p.fragment

\* the URLs that differ from p in the letter case of scheme or host, in the
\* fragment, or in a trailing slash of the path
Variants(p) ==
    { [scheme |-> sc, host |-> h, path |-> pa, query |-> p.query, fragment |-> f] :
        sc \in { x \in UrlSchemes : Lower(x) = Lower(p.scheme) },
        h \in { x \in UrlHosts : Lower(x) = Lower(p.host) },
        pa \in { p.path, p.path \o << "/" >> },
        f \in UrlFragments }

NormalizeInit ==
    /\ CrawlIdle
    /\ SimplifyIdle
    /\ DbIdle
    /\ \/ \E p \in UrlParts : \E q \in Variants(p) :
             arg = [u |-> Written(p), v |-> Written(q)]
       \/ \E w \in OtherUrls : arg = [u |-> w, v |-> w]
    /\ out = <<>>
    /\ fpc = "call"

\* normalize_url(u) and normalize_url(v)
NormalizeFirst ==
    /\ fpc = "call"
    /\ out' = [nu |-> normalize_url(arg.u), nv |-> normalize_url(arg.v),
               nnu |-> <<>>]
    /\ fpc' = "again"
    /\ UNCHANGED << arg, crawlVars, simplifyVars, dbVars >>

\* normalize_url(normalize_url(u))
NormalizeAgain ==
    /\ fpc = "again"
    /\ out' = [out EXCEPT !.nnu = normalize_url(out.nu)]
    /\ fpc' = "done"
    /\ UNCHANGED << arg, crawlVars, simplifyVars, dbVars >>

NormalizeNext == NormalizeFirst \/ NormalizeAgain

NormalizeSpec == NormalizeInit /\ [][NormalizeNext]_vars

(***************************************************************************)
(* get_base_domain on its own: it is applied to hosts written as labels    *)
(* between dots, with or without a port, and to IPv6 literals.             *)
(***************************************************************************)
\* the labels of the hosts, the empty label among them
HostLabels ==
    { <<>>, << "blog" >>, << "pleo" >>, << "io" >>, << "example" >>,
      << "co" >>, << "uk" >>, << "com" >>, << "au" >> }

\* the hosts as they are written, with their labels and port; an IPv6
\* literal is one label without a dot
Hosts ==
    { [host |-> Join(l, ".") \o p, labels |-> l, port |-> p] :
        l \in (ListsUpTo(HostLabels, MaxLabels) \ { <<>> })
                \cup { << << "[", ":", ":", "1", "]" >> >> },
        p \in { <<>>, << ":", "8080" >> } }

BaseDomainInit ==
    /\ CrawlIdle
    /\ SimplifyIdle
    /\ DbIdle
    /\ arg \in Hosts
    /\ out = <<>>
    /\ fpc = "call"

\* get_base_domain(host)
BaseDomainCall ==
    /\ fpc = "call"
    /\ out' = get_base_domain(arg.host)
    /\ fpc' = "done"
    /\ UNCHANGED << arg, crawlVars, simplifyVars, dbVars >>

BaseDomainNext == BaseDomainCall

BaseDomainSpec == BaseDomainInit /\ [][BaseDomainNext]_vars

(***************************************************************************)
(* update_links_db.py: update_links_from_companies, run twice against the  *)
(* table links of create_links_table.py.                                   *)
(***************************************************************************)
Runs == { 1, 2 }

\* the days a run can take place on, as date.today() gives them
Dates == { 1, 2 }

\* the column website of the rows that the query of lines 27-35 returns
JobWebsites ==
    << << "pleo", ".", "io" >>,
       << "https", ":", "/", "/", "pleo", ".", "io" >> >>

\* the external links a crawl of a website can return: the list of a set
\* (functions.py line 222), no link twice
JobCrawls ==
    LET JobLinks ==
            { << "https", ":", "/", "/", "www", ".", "goo", ".", "org", "/", "k", "?", "q" >>,
              << "https", ":", "/", "/", "maps", ".", "goo", ".", "org", "/" >>,
              << "https", ":", "/", "/", "www", ".", "example", ".", "co", ".", "uk" >> }
    IN  { l \in ListsUpTo(JobLinks, MaxLinks) : Cardinality(Range(l)) = Len(l) }

\* lines 52-53: the website, with https:// put before it unless
\* website.startswith(('http://', 'https://'))
WithScheme(website) ==
    IF /\ Len(website) >= 4
       /\ website[1] \in { "http", "https" }
       /\ SubSeq(website, 2, 4) = << ":", "/", "/" >>
    THEN website
    ELSE << "https", ":", "/", "/" >> \o website

\* the values of (date, linking_url, url) that a run can look for or insert;
\* url is a base domain of the links of JobCrawls, as
\* simplify_external_links gives it
JobTriples ==
    [date : Dates,
     linking_url : { WithScheme(JobWebsites[i]) : i \in 1..Len(JobWebsites) },
     url : { << "goo", ".", "org" >>, << "example", ".", "co", ".", "uk" >> }]

\* a run that has not started (lines 16-20)
IdleRun ==
    [pc |-> "idle", today |-> 0, company |-> 0, website |-> <<>>,
     simplified_domains |-> <<>>, domain |-> 0, crawled |-> <<>>,
     links_inserted |-> 0, errors |-> FALSE, after |-> {}]

\* the table links holds no triple twice, and no run has started
JobInit ==
    /\ CrawlIdle
    /\ SimplifyIdle
    /\ PureIdle
    /\ pool = <<>>
    /\ query = <<>>
    /\ test_db = <<>>
    /\ cron = <<>>
    /\ links \in [JobTriples -> { 0, 1 }]
    /\ job = [r \in Runs |-> IdleRun]

\* the table links is empty, and no run has started
RaceInit ==
    /\ CrawlIdle
    /\ SimplifyIdle
    /\ PureIdle
    /\ pool = <<>>
    /\ query = <<>>
    /\ test_db = <<>>
    /\ cron = <<>>
    /\ links = [t \in JobTriples |-> 0]
    /\ job = [r \in Runs |-> IdleRun]

\* the parameters (today, website, domain) of the queries of lines 70 and 80
Triple(j) ==
    [date |-> j.today, linking_url |-> j.website,
     url |-> j.simplified_domains[j.domain]]

\* the run goes on after a domain: to the next domain of the company
\* (line 62), or to the next company (line 43)
Advance(j) ==
    IF j.domain < Len(j.simplified_domains)
    THEN [j EXCEPT !.pc = "check", !.domain = @ + 1]
    ELSE [j EXCEPT !.pc = "company", !.company = @ + 1]

\* Existing with the test len(existing) > 1
ExistingMoreThanOne(t) == links[t] > 1

\* lines 65-72: the SELECT found a row with the triple t
Existing(t) == links[t] > 0

\* Inserted for a table with a uniqueness constraint on the triple: no
\* second row
InsertedUnique(t) ==
    IF links[t] > 0 THEN links ELSE [links EXCEPT ![t] = @ + 1]

\* lines 76-80, and the table of create_links_table.py, whose only key is
\* the serial id: the INSERT adds a row
Inserted(t) == [links EXCEPT ![t] = @ + 1]

\* lines 16-41: the run r starts and reads the companies and the date; the
\* runs that are over by then are noted
StartRun(r) ==
    /\ job[r].pc = "idle"
    /\ \E today \in Dates :
         job' = [job EXCEPT ![r] =
                    [IdleRun EXCEPT !.pc = "company", !.today = today,
                                    !.company = 1,
                                    !.after = { o \in Runs : job[o].pc = "done" }]]
    /\ UNCHANGED links

\* a run starts while no other run is under way
SequentialStart ==
    /\ \E r \in Runs :
         /\ \A o \in Runs \ {r} : job[o].pc \in { "idle", "done" }
         /\ StartRun(r)
    /\ UNCHANGED << crawlVars, simplifyVars, pureVars, pool, query, test_db, cron >>

\* a run starts, whatever the other run does
AnyStart ==
    /\ \E r \in Runs : StartRun(r)
    /\ UNCHANGED << crawlVars, simplifyVars, pureVars, pool, query, test_db, cron >>

\* lines 43-59: the website of the next company is crawled and the links
\* simplified
CrawlCompany ==
    /\ \E r \in Runs :
         /\ job[r].pc = "company"
         /\ job[r].company <= Len(JobWebsites)
         /\ \E crawl_result \in JobCrawls :
              LET found_domains == simplify_external_links(crawl_result)
                  j == [job[r] EXCEPT
                          !.website = WithScheme(JobWebsites[job[r].company]),
                          !.simplified_domains = found_domains,
                          !.crawled = Append(@, found_domains),
                          !.domain = 0]
              IN  job' = [job EXCEPT ![r] = Advance(j)]
    /\ UNCHANGED links
    /\ UNCHANGED << crawlVars, simplifyVars, pureVars, pool, query, test_db, cron >>

\* line 94: no company is left
FinishRun ==
    /\ \E r \in Runs :
         /\ job[r].pc = "company"
         /\ job[r].company > Len(JobWebsites)
         /\ job' = [job EXCEPT ![r].pc = "done"]
    /\ UNCHANGED links
    /\ UNCHANGED << crawlVars, simplifyVars, pureVars, pool, query, test_db, cron >>

\* lines 64-74 and 82-85: the SELECT for the triple; it raises, or finds a
\* row, or finds none
CheckExisting ==
    /\ \E r \in Runs :
         /\ job[r].pc = "check"
         /\ \/ job' = [job EXCEPT ![r] = Advance([job[r] EXCEPT !.errors = TRUE])]
            \/ /\ Existing(Triple(job[r]))
               /\ job' = [job EXCEPT ![r] = Advance(job[r])]
            \/ /\ ~Existing(Triple(job[r]))
               /\ job' = [job EXCEPT ![r].pc = "insert"]
    /\ UNCHANGED links
    /\ UNCHANGED << crawlVars, simplifyVars, pureVars, pool, query, test_db, cron >>

\* lines 76-85: the INSERT of the triple; it raises, or adds the row
InsertLink ==
    /\ \E r \in Runs :
         /\ job[r].pc = "insert"
         /\ \/ /\ job' = [job EXCEPT ![r] = Advance([job[r] EXCEPT !.errors = TRUE])]
               /\ UNCHANGED links
            \/ /\ links' = Inserted(Triple(job[r]))
               /\ job' = [job EXCEPT ![r] =
                              Advance([job[r] EXCEPT !.links_inserted = @ + 1])]
    /\ UNCHANGED << crawlVars, simplifyVars, pureVars, pool, query, test_db, cron >>

\* the runs of the job one after the other
JobNext == SequentialStart \/ CrawlCompany \/ FinishRun \/ CheckExisting \/ InsertLink

JobSpec == JobInit /\ [][JobNext]_vars

\* two runs of the job at the same time, as two processes
RaceNext == AnyStart \/ CrawlCompany \/ FinishRun \/ CheckExisting \/ InsertLink

RaceSpec == RaceInit /\ [][RaceNext]_vars

(***************************************************************************)
(* db.py: Database.execute_query and the connections it takes from the     *)
(* pool.                                                                   *)
(***************************************************************************)
\* the calls of execute_query in a behaviour
MaxCalls == 3

\* no call of execute_query is under way; outcome is that of the last call,
\* and failed the step of it that raised first
NoQuery(outcome, calls, failed) ==
    [pc |-> "idle", kind |-> "none", fetch |-> FALSE, cursor |-> "unbound",
     failed |-> failed, outcome |-> outcome, calls |-> calls]

\* the pool was created (lines 19-23) or not (line 28); no connection is
\* taken
PoolInit ==
    /\ CrawlIdle
    /\ SimplifyIdle
    /\ PureIdle
    /\ links = <<>>
    /\ job = <<>>
    /\ test_db = <<>>
    /\ cron = <<>>
    /\ pool \in [created : BOOLEAN, out : { 0 }]
    /\ query = NoQuery("none", 0, "none")

\* the statement raised at the step it is at: the handler of line 76 runs
ToHandler == [query EXCEPT !.pc = "rollback", !.failed = query.pc]

\* lines 41-45: execute_query is called; it takes a connection, or returns
\* None when there is no pool
Call ==
    /\ query.pc = "idle"
    /\ query.calls < MaxCalls
    /\ \E kind \in { "select", "returning", "write" }, fetch \in BOOLEAN :
         IF pool.created
         THEN /\ pool' = [pool EXCEPT !.out = @ + 1]
              /\ query' = [pc |-> "cursor", kind |-> kind, fetch |-> fetch,
                           cursor |-> "unbound", failed |-> "none",
                           outcome |-> "none", calls |-> query.calls + 1]
         ELSE /\ pool' = pool
              /\ query' = NoQuery("None", query.calls + 1, "none")
    /\ UNCHANGED << crawlVars, simplifyVars, pureVars, links, job, test_db, cron >>

\* line 48: connection.cursor()
Cursor ==
    /\ query.pc = "cursor"
    /\ \/ query' = [query EXCEPT !.pc = "execute", !.cursor = "open"]
       \/ query' = ToHandler
    /\ UNCHANGED pool
    /\ UNCHANGED << crawlVars, simplifyVars, pureVars, links, job, test_db, cron >>

\* lines 49-56: cursor.execute, and the branch taken after it
Execute ==
    /\ query.pc = "execute"
    /\ \/ query' = [query EXCEPT !.pc =
                        IF query.kind \in { "select", "returning" } /\ query.fetch
                        THEN "fetch"
                        ELSE "commit"]
       \/ query' = ToHandler
    /\ UNCHANGED pool
    /\ UNCHANGED << crawlVars, simplifyVars, pureVars, links, job, test_db, cron >>

\* lines 58 and 65: cursor.fetchone() for RETURNING, cursor.fetchall() for
\* a SELECT
FetchRows ==
    /\ query.pc = "fetch"
    /\ \/ query' = [query EXCEPT !.pc =
                        IF query.kind = "returning" THEN "commit" ELSE "close"]
       \/ query' = ToHandler
    /\ UNCHANGED pool
    /\ UNCHANGED << crawlVars, simplifyVars, pureVars, links, job, test_db, cron >>

\* lines 59 and 71: connection.commit()
Commit ==
    /\ query.pc = "commit"
    /\ \/ query' = [query EXCEPT !.pc = "close"]
       \/ query' = ToHandler
    /\ UNCHANGED pool
    /\ UNCHANGED << crawlVars, simplifyVars, pureVars, links, job, test_db, cron >>

\* lines 60, 66 and 73: cursor.close()
Close ==
    /\ query.pc = "close"
    /\ \/ query' = [query EXCEPT !.pc = "return", !.cursor = "closed"]
       \/ query' = ToHandler
    /\ UNCHANGED pool
    /\ UNCHANGED << crawlVars, simplifyVars, pureVars, links, job, test_db, cron >>

\* lines 61-62, 67-68 and 74-75: the connection goes back to the pool and
\* execute_query returns
ReturnConnection ==
    /\ query.pc = "return"
    /\ pool' = [pool EXCEPT !.out = @ - 1]
    /\ query' = NoQuery("returned", query.calls, "none")
    /\ UNCHANGED << crawlVars, simplifyVars, pureVars, links, job, test_db, cron >>

\* line 78: connection.rollback() in the handler; when it raises, the
\* exception leaves execute_query
Rollback ==
    /\ query.pc = "rollback"
    /\ \/ /\ query' = [query EXCEPT !.pc = "handler_close"]
          /\ UNCHANGED pool
       \/ /\ query' = NoQuery("raised", query.calls, query.failed)
          /\ UNCHANGED pool
    /\ UNCHANGED << crawlVars, simplifyVars, pureVars, links, job, test_db, cron >>

\* line 79: cursor.close() in the handler; the name cursor is unbound when
\* line 48 raised, and then this line raises UnboundLocalError
HandlerClose ==
    /\ query.pc = "handler_close"
    /\ \/ /\ query.cursor # "unbound"
          /\ query' = [query EXCEPT !.pc = "handler_return", !.cursor = "closed"]
       \/ query' = NoQuery("raised", query.calls, query.failed)
    /\ UNCHANGED pool
    /\ UNCHANGED << crawlVars, simplifyVars, pureVars, links, job, test_db, cron >>

\* lines 80-81: the connection goes back to the pool and the error is
\* raised again
HandlerReturn ==
    /\ query.pc = "handler_return"
    /\ pool' = [pool EXCEPT !.out = @ - 1]
    /\ query' = NoQuery("raised", query.calls, query.failed)
    /\ UNCHANGED << crawlVars, simplifyVars, pureVars, links, job, test_db, cron >>

PoolNext ==
    \/ Call
    \/ Cursor
    \/ Execute
    \/ FetchRows
    \/ Commit
    \/ Close
    \/ ReturnConnection
    \/ Rollback
    \/ HandlerClose
    \/ HandlerReturn

PoolSpec == PoolInit /\ [][PoolNext]_vars

(***************************************************************************)
(* cron_job.py: run_cron_job, run again and again against the table        *)
(* test_db.                                                                *)
(***************************************************************************)
\* the runs of the cron job in a behaviour
MaxRuns == 3

\* lines 27-34: the result of a run that has not done anything; runs counts
\* the runs started, and clean tells that every query of every run so far
\* succeeded
NewResult(runs, clean) ==
    [pc |-> "count", runs |-> runs, clean |-> clean, success |-> FALSE,
     sequence_number |-> 0, entry_id |-> 0, total_entries |-> 0,
     errors |-> {}]

\* the table test_db is empty and no run has started
CronInit ==
    /\ CrawlIdle
    /\ SimplifyIdle
    /\ PureIdle
    /\ links = <<>>
    /\ job = <<>>
    /\ pool = <<>>
    /\ query = <<>>
    /\ test_db = <<>>
    /\ cron = [NewResult(0, TRUE) EXCEPT !.pc = "idle"]

\* a query of the run raised, or returned nothing
Failed(error) ==
    [cron EXCEPT !.errors = @ \cup { error }, !.clean = FALSE]

\* NextSequence without the + 1
NextSequenceIsCount(total) == total

\* line 57: count_result[0]['total'] + 1
NextSequence(total) == total + 1

\* lines 27-49: a run starts; without a connection pool it returns at once
CronStart ==
    /\ cron.pc = "idle"
    /\ cron.runs < MaxRuns
    /\ \/ cron' = NewResult(cron.runs + 1, cron.clean)
       \/ cron' = [NewResult(cron.runs + 1, FALSE) EXCEPT
                      !.pc = "idle", !.errors = { "pool" }]
    /\ UNCHANGED test_db
    /\ UNCHANGED << crawlVars, simplifyVars, pureVars, links, job, pool, query >>

\* lines 52-68: the rows of test_db are counted
CountRows ==
    /\ cron.pc = "count"
    /\ \/ cron' = [cron EXCEPT !.pc = "insert",
                                !.sequence_number = NextSequence(Len(test_db))]
       \/ cron' = [Failed("count") EXCEPT !.pc = "insert", !.sequence_number = 1]
    /\ UNCHANGED test_db
    /\ UNCHANGED << crawlVars, simplifyVars, pureVars, links, job, pool, query >>

\* lines 71-94: the row is inserted; when execute_query raises, the row is
\* there if the commit of db.py line 59 was done, and not otherwise
InsertRow ==
    /\ cron.pc = "insert"
    /\ \/ /\ test_db' = Append(test_db, cron.sequence_number)
          /\ cron' = [cron EXCEPT !.pc = "stats", !.entry_id = Len(test_db) + 1]
       \/ /\ test_db' \in { test_db, Append(test_db, cron.sequence_number) }
          /\ cron' = [Failed("insert") EXCEPT !.pc = "stats"]
    /\ UNCHANGED << crawlVars, simplifyVars, pureVars, links, job, pool, query >>

\* lines 97-113: the rows are counted again, and success is set
Stats ==
    /\ cron.pc = "stats"
    /\ \/ cron' = [cron EXCEPT !.pc = "idle", !.total_entries = Len(test_db),
                                !.success = (cron.errors = {})]
       \/ cron' = [Failed("stats") EXCEPT !.pc = "idle",
                                           !.success = (Failed("stats").errors = {})]
    /\ UNCHANGED test_db
    /\ UNCHANGED << crawlVars, simplifyVars, pureVars, links, job, pool, query >>

CronNext == CronStart \/ CountRows \/ InsertRow \/ Stats

CronSpec == CronInit /\ [][CronNext]_vars

(***************************************************************************)
(* The claims.                                                             *)
(***************************************************************************)

\* the seed passes the checks of lines 109-114
SeedValid ==
    /\ ~UrlparseRaises(seed)
    /\ Truthy(Urlparse(seed).netloc)
    /\ Truthy(get_base_domain(Urlparse(seed).netloc))

\* the base domain of the host of the canonical form of a URL
CanonicalBase(url) == get_base_domain(Urlparse(normalize_url(url)).netloc)

\* an anchor with an http(s) scheme and a host
IsWebLink(a) ==
    /\ ~UrlparseRaises(a)
    /\ Urlparse(a).scheme \in { << "http" >>, << "https" >> }
    /\ Truthy(Urlparse(a).netloc)
    /\ Truthy(get_base_domain(Urlparse(a).netloc))

\* the anchors of parsed pages that lead to the seed's site
InternalAnchors ==
    { a \in anchors : IsWebLink(a) /\ CanonicalBase(a) = CanonicalBase(seed) }

\* C1: in every state of a crawl started with fresh collections, visited
\* holds at most maxPages URLs
C1_BoundedVisited == Cardinality(visited) <= maxPages

\* C1: the cap is reached while a parsed page still links to an internal
\* URL that was never visited
C1_Witness ==
    /\ pc = "returned"
    /\ maxPages >= 2
    /\ Cardinality(visited) = maxPages
    /\ \E a \in InternalAnchors : normalize_url(a) \notin visited

\* C2: no two GETs of a crawl are for the same canonical URL
C2_NoDuplicateFetch ==
    \A i, j \in 1..Len(fetched) :
        i # j => normalize_url(fetched[i].url) # normalize_url(fetched[j].url)

\* C2: two pages were fetched and a parsed page links back to the seed
\* (a cycle of links)
C2_Witness ==
    /\ Len(fetched) >= 2
    /\ fetched[1].url = seed
    /\ Len(stack) >= 2
    /\ \E a \in InternalAnchors : normalize_url(a) = normalize_url(seed)

\* C8: with a page cap of 1 nothing but the seed is fetched, and a valid
\* seed is fetched exactly once
C8_OnlySeedFetched ==
    maxPages = 1 =>
        /\ Len(fetched) <= 1
        /\ \A i \in 1..Len(fetched) : fetched[i].url = seed
        /\ (pc \in {"returned", "done"} /\ SeedValid) => Len(fetched) = 1

\* C8: the cap is 1 and the parsed seed page links to an internal URL other
\* than the seed
C8_Witness ==
    /\ maxPages = 1
    /\ pc = "returned"
    /\ \E a \in InternalAnchors : normalize_url(a) # normalize_url(seed)

\* C3: no exception leaves the crawl and the crawl never ends in an error;
\* a call that fails ends alone, its callers go on with their loops; what
\* the crawl returns is what was collected
C3_NoErrorEscapes ==
    /\ [](/\ raised = "none"
          /\ pc # "error"
          /\ pc \in {"returned", "done"} => Range(result) = external_links)
    /\ [][(Len(stack) >= 2 /\ Top(stack).at = "call")
             => (Len(stack') = Len(stack) \/ stack' = Pop(stack))]_vars

\* C3: a fetch failed, a later page was fetched and parsed, and the crawl
\* returned a result that is not empty
C3_Witness ==
    /\ pc = "returned"
    /\ result # <<>>
    /\ \E i, j \in 1..Len(fetched) :
           i < j /\ fetched[i].kind # "page" /\ fetched[j].kind = "page"

\* what a call on the stack still has to do: a call that has not run its
\* entry, or one with left anchors to go
FrameWeight(f) == IF f.at = "call" THEN 2 ELSE 3 * f.left + 1

RECURSIVE StackWeight(_)
StackWeight(stk) ==
    IF stk = <<>> THEN 0 ELSE FrameWeight(Top(stk)) + StackWeight(Pop(stk))

\* a natural number that bounds the steps a crawl has left: the pages the
\* cap still allows, each worth more than a whole page of anchors, and the
\* work of the calls on the stack
Measure ==
    (3 * MaxLinks + 2) * (maxPages - Cardinality(visited))
    + StackWeight(stack)
    + (IF pc = "crawl" THEN 2 ELSE IF pc = "returned" THEN 1 ELSE 0)

\* a crawl that has not returned has a step to take: its running call is at
\* its entry or in its for loop, and it has not ended by an exception
CanStep ==
    /\ pc # "error"
    /\ pc = "crawl" =>
          /\ stack # <<>>
          /\ Top(stack).at \in {"call", "loop"}
          /\ Top(stack).left >= 0
    /\ pc \in {"returned", "done"} => stack = <<>>

\* C4: every crawl terminates after at most maxPages GETs: every step
\* decreases a natural number, a crawl that has not returned has a step and
\* is not in an error state, and no crawl issues more than maxPages GETs
C4_Terminates ==
    /\ [][Measure' < Measure]_vars
    /\ [](Measure >= 0 /\ CanStep /\ Len(fetched) <= maxPages)

\* C4: a crawl over pages that link back to the seed, with a failed fetch,
\* has returned after maxPages GETs
C4_Witness ==
    /\ pc = "returned"
    /\ maxPages >= 2
    /\ Len(fetched) = maxPages
    /\ \E i \in 1..Len(fetched) : fetched[i].kind = "error"
    /\ \E a \in InternalAnchors : normalize_url(a) = normalize_url(seed)

\* C5: for a seed without host or without base domain the crawl issues no
\* GET, never gets to a loop or a second call, and returns the empty list
C5_InvalidSeedNoFetch ==
    ~SeedValid =>
        /\ fetched = <<>>
        /\ external_links = {}
        /\ raised = "none"
        /\ pc = "crawl" => stack = << Frame(seed) >>
        /\ pc # "crawl" => stack = <<>> /\ result = <<>>

\* C5: the crawl of a seed with a host but without base domain has returned
C5_Witness ==
    /\ ~UrlparseRaises(seed)
    /\ Truthy(Urlparse(seed).netloc)
    /\ ~Truthy(get_base_domain(Urlparse(seed).netloc))
    /\ pc = "returned"
    /\ result = <<>>

\* the base domains of the http(s) anchors with a host on the parsed pages
\* whose base domain is not the seed's
ExpectedDomains ==
    { CanonicalBase(a) :
        a \in { b \in anchors :
                  IsWebLink(b) /\ CanonicalBase(b) # CanonicalBase(seed) } }

\* C6: the domains obtained from a crawl are exactly the base domains of the
\* http(s) anchors of the parsed pages that differ from the seed's base domain
C6_ExactDomains == pc = "done" => Range(domains) = ExpectedDomains

\* C6: a crawl of a seed with an upper-case host has ended with the seed's
\* own base domain among the domains
C6_Witness ==
    /\ pc = "done"
    /\ seed # Lower(seed)
    /\ CanonicalBase(seed) \in Range(domains)

\* C7, as stated: what the crawl returns is the sorted list of base domains
C7_ReturnsDomains == pc = "done" => result = domains

\* C7, amended: what the crawl returns is a list of the URLs of
\* external_links, each once, every one of them a normalized http(s) URL
C7_ReturnsRawLinks ==
    pc \in {"returned", "done"} =>
        /\ Range(result) = external_links
        /\ Len(result) = Cardinality(external_links)
        /\ \A u \in Range(result) : IsWebLink(u) /\ normalize_url(u) = u

\* C7: the crawl returned two URLs that simplify reduces to one domain
C7_Witness ==
    /\ pc = "returned"
    /\ Len(result) >= 2
    /\ Len(simplify_external_links(result)) < Len(result)

\* the base domains of the hosts of the URLs of l that have a host and a
\* base domain
BaseDomainsOf(l) ==
    { get_base_domain(Urlparse(u).netloc) :
        u \in { v \in Range(l) :
                  /\ ~UrlparseRaises(v)
                  /\ Truthy(Urlparse(v).netloc)
                  /\ Truthy(get_base_domain(Urlparse(v).netloc)) } }

\* C9: what simplify_external_links returns is in strictly ascending order
\* (sorted, no entry twice) and its entries are exactly the base domains of
\* the hosts of the input URLs that have a host and a base domain
C9_SortedUniqueBaseDomains ==
    spc \in {"second", "done"} =>
        /\ \A i, j \in 1..Len(outx) : i < j => StrLess(outx[i], outx[j])
        /\ Range(outx) = BaseDomainsOf(xs)

\* C9: an input with an entry without host, and two hosts of one base domain
\* among hosts of several base domains, has been simplified
C9_Witness ==
    /\ spc = "done"
    /\ Len(outx) >= 2
    /\ Len(outx) < Len(xs)
    /\ \E i \in 1..Len(xs) :
           UrlparseRaises(xs[i]) \/ ~Truthy(Urlparse(xs[i]).netloc)

\* C10: two inputs with the same set of URLs, whatever their order and
\* their repetitions, are simplified to the same sequence
C10_DependsOnSetOnly ==
    (spc = "done" /\ Range(xs) = Range(ys)) => outx = outy

\* C10: an input with a repeated URL and the same URLs without the
\* repetition, in another order, with several base domains, have been
\* simplified
C10_Witness ==
    /\ spc = "done"
    /\ Range(xs) = Range(ys)
    /\ Len(ys) < Len(xs)
    /\ ys[1] # xs[1]
    /\ Len(outx) >= 2

\* C11: normalize_url applied to its own result gives that result again
C11_Idempotent == fpc = "done" => out.nnu = out.nu

\* C11: a URL that normalize_url changes has been normalized twice
C11_Witness ==
    /\ fpc = "done"
    /\ out.nu # arg.u
    /\ out.nnu = out.nu

\* C12: two URLs that differ only in the letter case of scheme or host, in
\* the fragment, or in a trailing slash of the path have the same normalized
\* URL
C12_SameCanonical ==
    fpc \in {"again", "done"} => out.nu = out.nv

\* C12: two URLs that differ in letter case, fragment and trailing slash at
\* once have been normalized
C12_Witness ==
    /\ fpc = "done"
    /\ Lower(arg.u) # Lower(arg.v)
    /\ arg.u # Lower(arg.u)
    /\ Find(arg.v, "#") > 0
    /\ Find(arg.u, "#") = 0
    /\ out.nu = out.nv

\* the suffixes of two labels that belong to the registry
CompoundSuffixes ==
    { << << "co" >>, << "uk" >> >>, << << "com" >>, << "au" >> >>,
      << << "co" >>, << "nz" >> >>, << << "co" >>, << "za" >> >>,
      << << "com" >>, << "br" >> >>, << << "com" >>, << "mx" >> >> }

\* the base domain of a host of the labels l: its last three labels under a
\* suffix of two labels, else its last two, else the host
BaseOfLabels(l) ==
    IF Len(l) >= 3 /\ << l[Len(l) - 1], l[Len(l)] >> \in CompoundSuffixes
    THEN Join(SubSeq(l, Len(l) - 2, Len(l)), ".")
    ELSE IF Len(l) >= 2
         THEN Join(SubSeq(l, Len(l) - 1, Len(l)), ".")
         ELSE Join(l, ".")

\* C13: get_base_domain gives None for the empty host and otherwise, the
\* port left aside, the last three labels of a host of three or more labels
\* that ends with one of the six suffixes of two labels, else the last two
\* labels of a host of two or more labels, else the host
C13_BaseDomain ==
    fpc = "done" =>
        out = IF arg.host = <<>> THEN None ELSE BaseOfLabels(arg.labels)

\* C13: the base domain of blog.example.co.uk:8080 is example.co.uk
C13_Witness ==
    /\ fpc = "done"
    /\ arg.host = << "blog", ".", "example", ".", "co", ".", "uk", ":", "8080" >>
    /\ out = << "example", ".", "co", ".", "uk" >>

\* the outermost call has passed its lines 92-105
Entered == stack = <<>> \/ Len(stack) > 1 \/ Top(stack).at # "call"

\* C14: once a crawl is past its entry, visited and external_links hold
\* nothing but what this crawl put there (its seed, the links it took for
\* internal, the anchors of its pages), and a valid seed was fetched, whatever
\* a crawl before it visited
C14_PerInvocation ==
    Entered =>
        /\ visited \subseteq { normalize_url(seed) } \cup { x.url : x \in found }
        /\ external_links \subseteq { normalize_url(a) : a \in anchors }
        /\ SeedValid => fetched # <<>> /\ fetched[1].url = seed

\* C14: the second crawl of the process starts at a URL the first one
\* visited, fetches it again and finds external links
C14_Witness ==
    /\ pc = "done"
    /\ normalize_url(seed) \in earlier
    /\ fetched # <<>>
    /\ external_links # {}

\* the links the crawl took for internal, on any page
TakenInternal == { x.url : x \in found }

\* C15: on every page of the crawl, the links taken for internal have the
\* base domain of the seed and the links taken for external have another
\* one, so no link is both; and every URL fetched has the base domain of the
\* seed
C15_ClassifiedBySeed ==
    /\ \A u \in TakenInternal : CanonicalBase(u) = CanonicalBase(seed)
    /\ \A e \in external_links : CanonicalBase(e) # CanonicalBase(seed)
    /\ TakenInternal \cap external_links = {}
    /\ \A i \in 1..Len(fetched) : CanonicalBase(fetched[i].url) = CanonicalBase(seed)

\* C15: a page below the seed's was parsed, and links were taken for
\* internal and for external
C15_Witness ==
    /\ pc = "returned"
    /\ \E i \in 2..Len(fetched) : fetched[i].kind = "page"
    /\ \E x \in found : x.on > 1
    /\ external_links # {}

\* url was handed to requests.get
IsFetched(url) == \E i \in 1..Len(fetched) : fetched[i].url = url

\* C16: when the crawl has returned, an internal URL u first found on a page
\* that was fetched before the page on which the internal URL v was first
\* found, was fetched before v
C16_BreadthFirst ==
    pc = "returned" =>
        \A u, v \in found :
            u.on < v.on /\ IsFetched(v.url) =>
                IsFetched(u.url) /\ PageIndex(u.url) < PageIndex(v.url)

\* C16 as the code has it: the crawl is depth-first and keeps no pending
\* work.  An internal link is visited at once, so every internal link found
\* so far is visited, or is the one the running call starts at, or was met
\* with the cap reached; and every page but the first was found on a page
\* fetched before it
C16_DepthFirst ==
    /\ \A x \in found :
          \/ x.url \in visited
          \/ stack # <<>> /\ Top(stack).at = "call" /\ Top(stack).url = x.url
          \/ Cardinality(visited) >= maxPages
    /\ \A j \in 2..Len(fetched) :
          \E x \in found : x.url = fetched[j].url /\ x.on < j

\* C16: the crawl has returned; a URL found on the first page was fetched
\* after a URL that was first found on a later page
C16_Witness ==
    /\ pc = "returned"
    /\ \E u, v \in found :
          /\ u.on = 1
          /\ v.on > 1
          /\ IsFetched(v.url)
          /\ IsFetched(u.url)
          /\ PageIndex(v.url) < PageIndex(u.url)

\* the calls that wait for the response to their GET
InFlight == { i \in 1..Len(stack) : stack[i].at = "get" }

\* the calls that are at work on the anchors of their page
InLoop == { i \in 1..Len(stack) : stack[i].at = "loop" }

\* C17: whatever maxWorkers is, at most maxWorkers GETs are in flight; and
\* visited changes only between the tasks that fetch and handle the pages,
\* when none of them is under way
C17_OnlyBetweenBatches ==
    [][/\ \A maxWorkers \in 1..5 : Cardinality(InFlight) <= maxWorkers
       /\ visited' # visited => InFlight = {} /\ InLoop = {}]_vars

\* C17 as the code has it: the crawl is sequential.  At most one GET is in
\* flight, that of the running call, whose URL is in visited by then; while
\* it is in flight nothing changes visited or external_links; and visited
\* changes only when a call starts, which adds its own URL
C17_Sequential ==
    /\ [](/\ Cardinality(InFlight) <= 1
          /\ \A i \in InFlight :
                i = Len(stack) /\ normalize_url(stack[i].url) \in visited)
    /\ [][/\ InFlight # {} =>
                visited' = visited /\ external_links' = external_links
          /\ visited' # visited =>
                /\ Top(stack).at = "call"
                /\ visited' = VisitedAtEntry(Len(stack) > 1)
                                \cup { normalize_url(Top(stack).url) }]_vars

\* C17: the GET of a page below the seed's is in flight while the call of
\* the seed's page still has anchors to go through
C17_Witness ==
    /\ InFlight = { Len(stack) }
    /\ Len(stack) >= 2
    /\ stack[1].left > 0
    /\ Cardinality(visited) >= 2

\* the content types of HTML pages
HtmlTypes == { "text/html", "application/xhtml+xml" }

\* the page that answered gave nothing: no anchor of it was looked at, no
\* link was taken for external or internal, no other page was fetched
EmptyOutcome ==
    /\ anchors = {}
    /\ external_links = {}
    /\ found = {}
    /\ Len(fetched) <= 1

\* C18: when the site answers with responses that are not HTML, the seed's
\* page gives an empty outcome
C18_NonHtmlEmpty == (\A r \in net : r.ctype \notin HtmlTypes) => EmptyOutcome

\* C18: a response that is not HTML, with status 200 and a body, came back
C18_Witness ==
    /\ \A r \in net : r.ctype \notin HtmlTypes /\ r.status = 200
    /\ fetched # <<>>
    /\ fetched[1].kind = "page"

\* C19: when the site answers with statuses outside 2xx, the seed's page
\* gives an empty outcome
C19_Non2xxEmpty ==
    (\A r \in net : r.status \notin 200..299) =>
        EmptyOutcome /\ (pc = "returned" => result = <<>>)

\* C19: a response with a status outside 2xx came back and the crawl returned
C19_Witness ==
    /\ \A r \in net : r.status \notin 200..299
    /\ fetched # <<>>
    /\ fetched[1].kind # "error"
    /\ pc = "returned"

\* the running call is inside its loop over the anchors of its page
AtAnchor == pc = "crawl" /\ stack # <<>> /\ Top(stack).at = "loop" /\ Top(stack).left > 0

\* C20: every link taken for external or internal is a resolved anchor with
\* an http(s) scheme and a host.  A step of the loop over the anchors never
\* ends the loop nor raises: the call stays where it was with one anchor
\* less to go.  And a step whose anchor is no such link changes neither
\* external_links nor visited nor the links taken for internal, and starts
\* no call
C20_BadAnchorSkipped ==
    /\ [](\A u \in external_links \cup TakenInternal :
             \E a \in anchors : IsWebLink(a) /\ normalize_url(a) = u)
    /\ [][AtAnchor =>
            /\ raised' = "none"
            /\ pc' = "crawl"
            /\ Len(stack') >= Len(stack)
            /\ stack'[Len(stack)] = [Top(stack) EXCEPT !.left = @ - 1]
            /\ (anchors' # anchors /\ \A a \in anchors' \ anchors : ~IsWebLink(a)) =>
                  /\ external_links' = external_links
                  /\ visited' = visited
                  /\ found' = found
                  /\ Len(stack') = Len(stack)]_vars

\* C20: the one page of the crawl had an anchor with a scheme that is not
\* http(s) and a sibling that was taken for external
C20_Witness ==
    /\ pc = "returned"
    /\ Len(fetched) = 1
    /\ << "mailto", ":", "x" >> \in anchors
    /\ external_links # {}

\* the URLs of NormalizeSpec by their parts, the path with one more slash
\* included
WrittenParts ==
    UrlParts \cup { [q EXCEPT !.path = @ \o << "/" >>] : q \in UrlParts }

\* the path without its last character when that is a slash and the path is
\* not "/"
StripOne(path) ==
    IF Len(path) > 1 /\ path[Len(path)] = "/"
    THEN SubSeq(path, 1, Len(path) - 1)
    ELSE path

\* the path without any of its trailing slashes, "/" when nothing is left
StripAll(path) ==
    IF \A i \in 1..Len(path) : path[i] = "/"
    THEN << "/" >>
    ELSE SubSeq(path, 1, CHOOSE i \in 1..Len(path) :
                            /\ path[i] # "/"
                            /\ \A j \in (i + 1)..Len(path) : path[j] = "/")

\* where the parameters of the last segment of the path begin: the place of
\* the first ';' after the last '/', 0 when there is none
ParamsAt(path) == FindFrom(path, ";", RFind(path, "/") + 1)

\* the path with every trailing slash taken off the part before the
\* parameters of its last segment, and without a ';' that no parameter follows
StripBeforeParams(path) ==
    IF ParamsAt(path) = 0
    THEN StripAll(path)
    ELSE StripAll(SubSeq(path, 1, ParamsAt(path) - 1))
         \o (IF ParamsAt(path) = Len(path) THEN <<>> ELSE Drop(path, ParamsAt(path)))

\* scheme and host in lower case, the path, the query, no fragment
Canonical(q, path) ==
    Lower(q.scheme) \o << ":", "/", "/" >> \o Lower(q.host) \o path \o q.query

\* C21: normalize_url takes exactly one trailing slash off a path that is
\* not "/", and leaves the rest of the path, its parameters and the query
\* as they are written
C21_StripsOneSlash ==
    fpc \in {"again", "done"} =>
        \A q \in WrittenParts :
            arg.v = Written(q) /\ q.path # <<>> =>
                out.nv = Canonical(q, StripOne(q.path))

\* C21 as the code has it: normalize_url takes every trailing slash off the
\* path, up to the parameters of its last segment, writes "/" when nothing
\* is left of it, and drops a ';' that no parameter follows; parameters and
\* query stay as they are written
C21_StripsAllSlashes ==
    fpc \in {"again", "done"} =>
        \A q \in WrittenParts :
            arg.v = Written(q) =>
                out.nv = Canonical(q, StripBeforeParams(q.path))

\* C21: a URL with a path that ends in two slashes and with a query has
\* been normalized, and both slashes are gone
C21_Witness ==
    /\ fpc = "done"
    /\ \E q \in WrittenParts :
          /\ arg.v = Written(q)
          /\ q.path = << "/", "a", "/", "/" >>
          /\ q.query # <<>>
          /\ out.nv = Canonical(q, << "/", "a" >>)

\* the anchors of the crawl whose host is the seed's but for letter case
SameHostAnchors ==
    { a \in anchors :
        /\ IsWebLink(a)
        /\ ~UrlparseRaises(seed)
        /\ Lower(Urlparse(a).netloc) = Lower(Urlparse(seed).netloc) }

\* C22: a link whose host differs from the seed's host in letter case at
\* most is taken for internal, never for external, whatever the letter case
\* of the seed
C22_CaseBlind ==
    \A a \in SameHostAnchors :
        /\ normalize_url(a) \in TakenInternal
        /\ normalize_url(a) \notin external_links

\* C22: the crawl of a seed written with capitals has returned, and its
\* first page links to the seed's host written in lower case
C22_Witness ==
    /\ pc = "returned"
    /\ seed # Lower(seed)
    /\ fetched # <<>>
    /\ fetched[1].kind = "page"
    /\ \E a \in SameHostAnchors : Urlparse(a).netloc # Urlparse(seed).netloc

\* C23: no step of a crawl takes an element out of visited or out of
\* external_links, and the list the crawl returns holds every external link
\* collected
C23_OnlyGrow ==
    [][/\ visited \subseteq visited'
       /\ external_links \subseteq external_links'
       /\ pc' = "returned" => external_links \subseteq Range(result')]_vars

\* C23: the crawl has returned the external links of its pages although the
\* last fetch, below the seed's page, failed with the cap reached
C23_Witness ==
    /\ pc = "returned"
    /\ Len(fetched) >= 2
    /\ fetched[Len(fetched)].kind = "error"
    /\ Cardinality(visited) = maxPages
    /\ Range(result) = external_links
    /\ external_links # {}

\* url was handed to requests.get, as it is or as the seed it is the
\* normalized URL of
WasFetched(url) ==
    \E i \in 1..Len(fetched) : normalize_url(fetched[i].url) = url

\* C24: a crawl that ended with fewer than maxPages URLs in visited has
\* visited and fetched every link of its parsed pages that leads to the
\* seed's site
C24_ClosedBelowCap ==
    (pc \in {"returned", "done"} /\ Cardinality(visited) < maxPages) =>
        \A a \in InternalAnchors :
            normalize_url(a) \in visited /\ WasFetched(normalize_url(a))

\* C24: a crawl of two pages or more that found internal links ended below
\* the cap
C24_Witness ==
    /\ pc = "returned"
    /\ Cardinality(visited) < maxPages
    /\ Len(fetched) >= 2
    /\ \E a \in InternalAnchors : normalize_url(a) # normalize_url(seed)

C26_InsertUnguarded ==
    [][\A r \in Runs :
          job'[r].links_inserted > job[r].links_inserted =>
              links'[Triple(job[r])] = links[Triple(job[r])] + 1]_vars

\* C26: both runs passed the check of the same triple before either
\* inserted, and the table holds two rows with that triple
C26_Witness ==
    \E t \in DOMAIN links :
        /\ links[t] = 2
        /\ \A r \in Runs : job[r].links_inserted >= 1 /\ job[r].today = t.date

\* C27: no connection is checked out of the pool while no query is
\* executing, whatever step of execute_query failed
C27_AllReturned ==
    /\ pool.created
    /\ query.pc = "idle"
    => pool.out = 0

\* C27: execute_query has raised after connection.cursor() failed, and no
\* query is executing
C27_Witness ==
    /\ pool.created
    /\ query.pc = "idle"
    /\ query.outcome = "raised"
    /\ query.failed = "cursor"
    /\ query.calls = 1

\* C28: while every query of every run succeeded, the rows of test_db are
\* numbered 1, 2, ... in the order of the runs, the k-th run that is over
\* inserted the number k and reports success; and every run that is over
\* reports success exactly when it has no error
C28_Consecutive ==
    /\ cron.clean /\ cron.pc = "idle" =>
          /\ test_db = [k \in 1..cron.runs |-> k]
          /\ cron.runs >= 1 =>
                /\ cron.sequence_number = cron.runs
                /\ cron.entry_id = cron.runs
                /\ cron.success
    /\ cron.clean /\ cron.pc = "stats" => test_db[cron.runs] = cron.runs
    /\ cron.pc = "idle" /\ cron.runs >= 1 => (cron.success <=> cron.errors = {})

\* C28: two runs are over, every query of them succeeded, and the second
\* inserted a row
C28_Witness ==
    /\ cron.pc = "idle"
    /\ cron.clean
    /\ cron.runs = 2
    /\ Len(test_db) = 2
    /\ cron.success

====
